---- MODULE Spec2Model ----
(***************************************************************************)
(* Model of backend/plugins/report_file_plugin.py: one invocation of       *)
(* ReportFilePlugin.save_report_to_file (Render -> Publish -> Record)      *)
(* against a document library, a file system, a blob store and a database  *)
(* whose calls may each succeed or raise.                                  *)
(*                                                                         *)
(* Strings built by f-strings are modelled as tuples of their parts, so    *)
(* that "file://<abs path>" and "file_not_found:<path>" stay distinct.     *)
(* os.path.join, os.path.abspath, uuid4 and json.dumps of str fields are   *)
(* taken as total (they do not raise).                                     *)
(***************************************************************************)
EXTENDS Naturals, Integers, Sequences, FiniteSets, TLC

\* ---------------------------------------------------------------- bounds
\* number of distinct session / conversation ids offered as inputs
MaxIds == 2
\* largest clock reading (the clock gives the filename timestamp and, later,
\* the year/month of the blob path)
MaxClock == 2

SessionIds == {"S" \o ToString(i) : i \in 1..MaxIds}
ConversationIds == {"C" \o ToString(i) : i \in 1..MaxIds}
\* the 8-character uuid prefixes a run may draw
ReportIds == {"id_a", "id_b"}

\* ------------------------------------------------------------- constants
None == <<>>
NoFile == "None"
NoError == "None"
\* the value `result` holds until save_report_to_file returns
NoResult == [returned |-> FALSE]
\* the value `reports` holds until get_reports returns
NotReturned == [kind |-> "None", reports |-> <<>>, error |-> "None"]
report_directory == "reports"
storage_container == "procurement-expediting-risk-reports"
TempMdName == "tmpXXXX.md"

\* ------------------------------------------------------------------ state
VARIABLES
    pc,                  \* position inside save_report_to_file
    SPIRE_DOC_AVAILABLE, \* module flag set at import
    blob_service_client, \* TRUE iff self.blob_service_client is set (and AZURE_STORAGE_AVAILABLE)
    session_id,          \* argument
    conversation_id,     \* argument
    timestamp,           \* local: clock reading used in the filename
    report_id,           \* local: uuid prefix
    temp_md_file,        \* local: name of the temporary markdown file, or NoFile
    word_error,          \* local: exception caught by `except Exception as word_error`
    returning,           \* TRUE while a `return` waits for the finally clause
    blob_url,            \* local: the locator, None until Publish fixes it
    container_error,     \* _upload_to_data_lake: exception caught at line 621
    upload_error,        \* _upload_to_data_lake: exception caught at line 649
    sp_error,            \* _log_report_to_database: exception caught at line 688
    log_error,           \* _log_report_to_database: exception caught at line 669 or 717
    log_ok,              \* value returned by _log_report_to_database: "True" | "False", "None" before
    result,              \* the JSON object returned
    tempOnDisk,          \* file system: the temporary markdown file exists
    docxOnDisk,          \* file system: the .docx exists at docx_filepath
    containerExists,     \* blob store: the container exists
    blobs,               \* blob store: set of blob paths uploaded
    conn,                \* database: "none" | "open" | "closed"
    txn,                 \* database: statements executed and not yet committed
    fact_risk_report,    \* database: committed log rows
    calls,               \* every call made to helpers and collaborators, in order
    \* ---- format_document, applied to a document on its own
    input_document,      \* the document as loaded, before any pass
    document,            \* the document object, mutated in place by format_document
    rejects,             \* property reads/assignments the document library rejects
    outline_enum_is_int, \* document library: OutlineLevel members compare equal to ints
    heading_levels,      \* heading_level computed for each paragraph in the last pass
    fmt_raised,          \* TRUE iff the last format_document call raised
    passes,              \* number of format_document calls made
    \* ---- several save_report_to_file invocations naming their artifacts
    now,                 \* the clock, in seconds
    invocations,         \* per invocation: position, timestamp, uuid drawn, report_id
    drawn,               \* the uuids uuid4() has returned so far
    artifacts,           \* report directory: filename -> invocation that wrote it last
    \* ---- get_reports
    get_session_id,      \* argument session_id of get_reports
    get_conversation_id, \* argument conversation_id of get_reports
    get_error,           \* exception caught at line 922, NoError if none
    reports,             \* the JSON value get_reports returned
    \* ---- with_retry
    retry_pc,            \* position inside with_retry
    max_retries,         \* argument
    backoff_multiplier,  \* argument
    attempt,             \* loop variable of `for attempt in range(max_retries)`
    delay,               \* local: seconds the next sleep lasts
    last_exception,      \* local: the exception caught last, None before
    events,              \* the coro_func() invocations and sleeps made, in order
    retry_outcome        \* how with_retry ended: a returned value or a raised exception

vars == <<pc, SPIRE_DOC_AVAILABLE, blob_service_client, session_id, conversation_id,
          timestamp, report_id, temp_md_file, word_error, returning, blob_url,
          container_error, upload_error, sp_error, log_error, log_ok,
          result, tempOnDisk, docxOnDisk, containerExists, blobs, conn, txn,
          fact_risk_report, calls,
          input_document, document, rejects, outline_enum_is_int, heading_levels,
          fmt_raised, passes,
          now, invocations, drawn, artifacts,
          get_session_id, get_conversation_id, get_error, reports,
          retry_pc, max_retries, backoff_multiplier, attempt, delay, last_exception,
          events, retry_outcome>>

pipelineVars == <<pc, SPIRE_DOC_AVAILABLE, blob_service_client, session_id, conversation_id,
                  timestamp, report_id, temp_md_file, word_error, returning, blob_url,
                  container_error, upload_error, sp_error, log_error, log_ok,
                  result, tempOnDisk, docxOnDisk, containerExists, blobs, conn, txn,
                  fact_risk_report, calls>>
fmtVars == <<input_document, document, rejects, outline_enum_is_int, heading_levels,
             fmt_raised, passes>>
\* the variables the save_report_to_file run leaves alone
namingVars == <<now, invocations, drawn, artifacts>>
reportsVars == <<get_session_id, get_conversation_id, get_error, reports>>
retryVars == <<retry_pc, max_retries, backoff_multiplier, attempt, delay, last_exception,
               events, retry_outcome>>
otherVars == <<fmtVars, namingVars, reportsVars, retryVars>>

renderLocals == <<timestamp, report_id, temp_md_file, word_error, returning>>
publishLocals == <<blob_url, container_error, upload_error>>
recordLocals == <<sp_error, log_error, log_ok>>
localVars == <<renderLocals, publishLocals, recordLocals>>
inputVars == <<SPIRE_DOC_AVAILABLE, blob_service_client, session_id, conversation_id>>
fsVars == <<tempOnDisk, docxOnDisk>>
blobVars == <<containerExists, blobs>>
dbVars == <<conn, txn, fact_risk_report>>

\* ---------------------------------------------------------------- naming
\* f"risk_report_{timestamp}_{report_id}.docx"
DocxFilename(ts, id) == <<"risk_report_", ts, "_", id, ".docx">>
docx_filename == DocxFilename(timestamp, report_id)
\* os.path.join(self.report_directory, docx_filename)
DocxFilepath(name) == <<report_directory, "/", name>>
docx_filepath == DocxFilepath(docx_filename)
\* os.path.abspath(path)
Abspath(path) == <<"/cwd/", path>>
\* f"file://{os.path.abspath(filepath)}"
LocalFileUrl(path) == <<"file://", Abspath(path)>>
\* f"file_not_found:{filepath}"
FileNotFoundUrl(path) == <<"file_not_found:", path>>
\* year and month of a clock reading, f"{year}/{month}/{filename}"
YearMonth(t) == t \div 2
\* variant: the folder is the clock reading itself, not its year and month
BlobPathByDay(t, name) == <<t, "/", name>>
BlobPath(t, name) == <<YearMonth(t), "/", name>>
\* blob_client.url
BlobClientUrl(path) == <<"https://", storage_container, "/", path>>

IsLocalFileUrl(u) == Len(u) = 2 /\ u[1] = "file://"
IsFileNotFoundUrl(u) == Len(u) = 2 /\ u[1] = "file_not_found:"
IsRemoteUrl(u) == Len(u) = 4 /\ u[1] = "https://"

\* ------------------------------------------------------------------- Init
\* values of the pipeline variables while no save_report_to_file run is modelled
RunIdle ==
    /\ pc = "idle"
    /\ SPIRE_DOC_AVAILABLE = TRUE
    /\ blob_service_client = FALSE
    /\ session_id = "None"
    /\ conversation_id = "None"
    /\ timestamp = 0
    /\ report_id = "None"
    /\ temp_md_file = NoFile
    /\ word_error = NoError
    /\ returning = FALSE
    /\ blob_url = None
    /\ container_error = NoError
    /\ upload_error = NoError
    /\ sp_error = NoError
    /\ log_error = NoError
    /\ log_ok = "None"
    /\ result = NoResult
    /\ tempOnDisk = FALSE
    /\ docxOnDisk = FALSE
    /\ containerExists = FALSE
    /\ blobs = {}
    /\ conn = "none"
    /\ txn = <<>>
    /\ calls = <<>>
PipelineIdle == RunIdle /\ fact_risk_report = <<>>

\* values of the format_document variables while no document is modelled
FormatIdle ==
    /\ input_document = <<>>
    /\ document = <<>>
    /\ rejects = {}
    /\ outline_enum_is_int = FALSE
    /\ heading_levels = <<>>
    /\ fmt_raised = FALSE
    /\ passes = 0

\* values of the naming variables while no invocations are modelled
NamingIdle ==
    /\ now = 0
    /\ invocations = <<>>
    /\ drawn = {}
    /\ artifacts = {}

\* values of the get_reports variables while no get_reports call is modelled
ReportsIdle ==
    /\ get_session_id = "None"
    /\ get_conversation_id = "None"
    /\ get_error = NoError
    /\ reports = NotReturned

\* values of the with_retry variables while no with_retry call is modelled
RetryIdle ==
    /\ retry_pc = "idle"
    /\ max_retries = 0
    /\ backoff_multiplier = 0
    /\ attempt = 0
    /\ delay = 0
    /\ last_exception = None
    /\ events = <<>>
    /\ retry_outcome = [kind |-> "None", value |-> None]

Init ==
    /\ RetryIdle
    /\ FormatIdle
    /\ NamingIdle
    /\ ReportsIdle
    /\ pc = "start"
    /\ SPIRE_DOC_AVAILABLE \in BOOLEAN
    /\ blob_service_client \in BOOLEAN
    /\ session_id \in SessionIds
    /\ conversation_id \in ConversationIds
    /\ timestamp = 0
    /\ report_id = "None"
    /\ temp_md_file = NoFile
    /\ word_error = NoError
    /\ returning = FALSE
    /\ blob_url = None
    /\ container_error = NoError
    /\ upload_error = NoError
    /\ sp_error = NoError
    /\ log_error = NoError
    /\ log_ok = "None"
    /\ result = NoResult
    /\ tempOnDisk = FALSE
    /\ docxOnDisk = FALSE
    /\ containerExists \in BOOLEAN
    /\ blobs = {}
    /\ conn = "none"
    /\ txn = <<>>
    /\ fact_risk_report = <<>>
    /\ calls = <<>>

\* ------------------------------------------------- save_report_to_file
\* lines 100-107: the document library is missing
InitializationError ==
    /\ pc = "start"
    /\ ~SPIRE_DOC_AVAILABLE
    /\ result' = [error |-> "Word document generation is not available. Spire.Doc.Free library is missing.",
                  success |-> FALSE,
                  stage |-> "initialization"]
    /\ pc' = "done"
    /\ UNCHANGED <<otherVars, inputVars, localVars, fsVars, blobVars, dbVars, calls>>

\* lines 109-113: timestamp, report_id, docx_filename, docx_filepath
GenerateFilename ==
    /\ pc = "start"
    /\ SPIRE_DOC_AVAILABLE
    /\ \E ts \in 1..MaxClock, id \in ReportIds :
          /\ timestamp' = ts
          /\ report_id' = id
    /\ pc' = "write_temp"
    /\ UNCHANGED <<otherVars, inputVars, temp_md_file, word_error, returning, publishLocals,
                   recordLocals, result, fsVars, blobVars, dbVars, calls>>

\* lines 122-129: with tempfile.NamedTemporaryFile(delete=False) as temp:
\*   temp.write(report_content); temp_md_file = temp.name
\* The file is created by NamedTemporaryFile; temp_md_file is bound only
\* after the write has succeeded; leaving the with block flushes and closes
\* the file, which may raise as well.
WriteTempMarkdown ==
    /\ pc = "write_temp"
    /\ \E outcome \in {"create_raises", "write_raises", "close_raises", "ok"} :
          \/ /\ outcome = "close_raises"
             /\ tempOnDisk' = TRUE
             /\ temp_md_file' = TempMdName
             /\ word_error' = "temp.close failed"
             /\ pc' = "word_error"
          \/ /\ outcome = "create_raises"
             /\ word_error' = "NamedTemporaryFile failed"
             /\ pc' = "word_error"
             /\ UNCHANGED <<temp_md_file, tempOnDisk>>
          \/ /\ outcome = "write_raises"
             /\ tempOnDisk' = TRUE
             /\ word_error' = "temp.write failed"
             /\ pc' = "word_error"
             /\ UNCHANGED temp_md_file
          \/ /\ outcome = "ok"
             /\ tempOnDisk' = TRUE
             /\ temp_md_file' = TempMdName
             /\ pc' = "generate"
             /\ UNCHANGED word_error
    /\ UNCHANGED <<otherVars, inputVars, timestamp, report_id, returning, publishLocals,
                   recordLocals, result, docxOnDisk, blobVars, dbVars, calls>>

\* _generate_word_document (lines 207-259), called at line 133: Document(),
\* LoadFromFile, format_document, SaveToFile, Dispose; every exception is
\* re-raised (line 259).  SaveToFile may leave a file behind when it raises,
\* and the code itself allows for a SaveToFile that returns without a file
\* (the WARNING branches at lines 137-138 and 251-252).
GenerateWordDocument ==
    /\ pc = "generate"
    /\ calls' = Append(calls, "_generate_word_document")
    /\ \E outcome \in {"load_raises", "save_raises", "dispose_raises", "ok"} :
          \/ /\ outcome = "load_raises"
             /\ word_error' = "LoadFromFile failed"
             /\ pc' = "word_error"
             /\ UNCHANGED docxOnDisk
          \/ /\ outcome = "save_raises"
             /\ docxOnDisk' \in BOOLEAN
             /\ word_error' = "SaveToFile failed"
             /\ pc' = "word_error"
          \/ /\ outcome = "dispose_raises"
             /\ docxOnDisk' = TRUE
             /\ word_error' = "Dispose failed"
             /\ pc' = "word_error"
          \/ /\ outcome = "ok"
             /\ docxOnDisk' \in BOOLEAN
             /\ pc' = "finally"
             /\ UNCHANGED word_error
    /\ UNCHANGED <<otherVars, inputVars, timestamp, report_id, temp_md_file, returning,
                   publishLocals, recordLocals, result, tempOnDisk, blobVars, dbVars>>

\* variant: the failure object lacks the success flag
WordGenerationFailureNoFlag(e) ==
    [error |-> <<"Word document generation failed: ", e>>,
     stage |-> "word_generation"]

\* the JSON returned by the handler at lines 139-146
WordGenerationFailure(e) ==
    [error |-> <<"Word document generation failed: ", e>>,
     stage |-> "word_generation",
     success |-> FALSE]

\* lines 139-146: except Exception as word_error: return json.dumps({...});
\* the return value is computed, then the finally clause runs
RenderExcept ==
    /\ pc = "word_error"
    /\ result' = WordGenerationFailure(word_error)
    /\ returning' = TRUE
    /\ pc' = "finally"
    /\ UNCHANGED <<otherVars, inputVars, timestamp, report_id, temp_md_file, word_error,
                   publishLocals, recordLocals, fsVars, blobVars, dbVars, calls>>

\* variant: the except clause does not return, control falls through to Publish
AfterFinallyFallsThrough(ret) == "publish"

\* where control goes when the finally clause of lines 147-154 ends
AfterFinally(ret) == IF ret THEN "done" ELSE "publish"

\* lines 147-154: if temp_md_file and os.path.exists(temp_md_file): os.remove
\* (an exception of os.remove is printed and dropped)
RenderFinally ==
    /\ pc = "finally"
    /\ IF temp_md_file # NoFile /\ tempOnDisk
          THEN \E removed \in BOOLEAN : tempOnDisk' = ~removed
          ELSE UNCHANGED tempOnDisk
    /\ pc' = AfterFinally(returning)
    /\ UNCHANGED <<otherVars, inputVars, localVars, result, docxOnDisk, blobVars, dbVars, calls>>

\* variant: without a blob client the run returns without logging
PublishSkipsRecord ==
    /\ pc = "publish"
    /\ ~blob_service_client
    /\ blob_url' = LocalFileUrl(docx_filepath)
    /\ pc' = "return"
    /\ UNCHANGED <<otherVars, inputVars, renderLocals, container_error, upload_error, recordLocals,
                   result, fsVars, blobVars, dbVars, calls>>

\* lines 163-167: no blob service client, the local file URL is the locator
PublishSkip ==
    /\ pc = "publish"
    /\ ~blob_service_client
    /\ blob_url' = LocalFileUrl(docx_filepath)
    /\ pc' = "record"
    /\ UNCHANGED <<otherVars, inputVars, renderLocals, container_error, upload_error, recordLocals,
                   result, fsVars, blobVars, dbVars, calls>>

\* lines 159-161: blob_url = self._upload_to_data_lake(docx_filepath, docx_filename)
PublishCall ==
    /\ pc = "publish"
    /\ blob_service_client
    /\ calls' = Append(calls, "_upload_to_data_lake")
    /\ pc' = "upload_container"
    /\ UNCHANGED <<otherVars, inputVars, localVars, result, fsVars, blobVars, dbVars>>

\* _upload_to_data_lake lines 615-624: exists(), create_container() when
\* absent; an exception of either is printed and the upload goes on
UploadContainer ==
    /\ pc = "upload_container"
    /\ \E outcome \in {"exists_raises", "present", "created", "create_raises"} :
          \/ /\ outcome = "exists_raises"
             /\ calls' = Append(calls, "exists")
             /\ container_error' = "exists failed"
             /\ UNCHANGED containerExists
          \/ /\ outcome = "present"
             /\ containerExists
             /\ calls' = Append(calls, "exists")
             /\ UNCHANGED <<containerExists, container_error>>
          \/ /\ outcome = "created"
             /\ ~containerExists
             /\ calls' = calls \o <<"exists", "create_container">>
             /\ containerExists' = TRUE
             /\ UNCHANGED container_error
          \/ /\ outcome = "create_raises"
             /\ ~containerExists
             /\ calls' = calls \o <<"exists", "create_container">>
             /\ container_error' = "create_container failed"
             /\ UNCHANGED containerExists
    /\ pc' = "upload_blob"
    /\ UNCHANGED <<otherVars, inputVars, renderLocals, blob_url, upload_error, recordLocals, result,
                   fsVars, blobs, dbVars>>

\* the value _upload_to_data_lake returns from its handler, lines 649-653
UploadFallback(path) == LocalFileUrl(path)

\* _upload_to_data_lake lines 626-653 and the assignment at line 161:
\* blob path from the clock, the os.path.exists check, upload_blob
UploadBlob ==
    /\ pc = "upload_blob"
    /\ IF ~docxOnDisk
          THEN /\ blob_url' = FileNotFoundUrl(docx_filepath)
               /\ UNCHANGED <<blobs, calls, upload_error>>
          ELSE \E outcome \in {"open_raises", "upload_raises", "ok"}, t \in timestamp..MaxClock :
                 \/ /\ outcome = "open_raises"
                    /\ upload_error' = "open failed"
                    /\ blob_url' = UploadFallback(docx_filepath)
                    /\ UNCHANGED <<blobs, calls>>
                 \/ /\ outcome = "upload_raises"
                    /\ calls' = Append(calls, "upload_blob")
                    /\ upload_error' = "upload_blob failed"
                    /\ blob_url' = UploadFallback(docx_filepath)
                    /\ UNCHANGED blobs
                 \/ /\ outcome = "ok"
                    /\ containerExists
                    /\ calls' = Append(calls, "upload_blob")
                    /\ blobs' = blobs \cup {BlobPath(t, docx_filename)}
                    /\ blob_url' = BlobClientUrl(BlobPath(t, docx_filename))
                    /\ UNCHANGED upload_error
    /\ pc' = "record"
    /\ UNCHANGED <<otherVars, inputVars, renderLocals, container_error, recordLocals, result, fsVars,
                   containerExists, dbVars>>

\* ------------------------------------------------ _log_report_to_database
\* variant: the row carries the local file URL, not the locator
LogRowLocalUrl(via) ==
    [session_id |-> session_id, conversation_id |-> conversation_id,
     filename |-> docx_filename, blob_url |-> LocalFileUrl(docx_filepath), via |-> via]

\* the parameters bound to either statement (lines 683 and 703)
LogRow(via) ==
    [session_id |-> session_id, conversation_id |-> conversation_id,
     filename |-> docx_filename, blob_url |-> blob_url, via |-> via]

\* line 178 and lines 665-673: pyodbc.connect and conn.cursor(); a failed
\* connect returns False (line 671), a failed cursor() reaches the handler
\* of lines 717-720
LogConnect ==
    /\ pc = "record"
    /\ \E outcome \in {"connect_raises", "cursor_raises", "ok"} :
          \/ /\ outcome = "connect_raises"
             /\ calls' = calls \o <<"_log_report_to_database", "connect">>
             /\ log_error' = "connect failed"
             /\ log_ok' = "False"
             /\ pc' = "return"
             /\ UNCHANGED conn
          \/ /\ outcome = "cursor_raises"
             /\ calls' = calls \o <<"_log_report_to_database", "connect", "cursor">>
             /\ conn' = "open"
             /\ log_error' = "cursor failed"
             /\ log_ok' = "False"
             /\ pc' = "return"
          \/ /\ outcome = "ok"
             /\ calls' = calls \o <<"_log_report_to_database", "connect", "cursor">>
             /\ conn' = "open"
             /\ pc' = "log_primary"
             /\ UNCHANGED <<log_error, log_ok>>
    /\ UNCHANGED <<otherVars, inputVars, renderLocals, publishLocals, sp_error, result, fsVars,
                   blobVars, txn, fact_risk_report>>

\* variant: the fallback INSERT runs whatever the primary attempt did
AfterPrimaryAlwaysFallback(ok) == "log_fallback"

\* where control goes when the primary attempt (lines 676-686) ends
AfterPrimary(ok) == IF ok THEN "log_close" ELSE "log_fallback"

\* lines 676-689: EXEC sp_LogRiskReport, conn.commit(); any exception is
\* caught as sp_error
LogPrimary ==
    /\ pc = "log_primary"
    /\ \E outcome \in {"execute_raises", "commit_raises", "ok"} :
          \/ /\ outcome = "execute_raises"
             /\ calls' = Append(calls, "sp_LogRiskReport")
             /\ sp_error' = "sp_LogRiskReport failed"
             /\ pc' = AfterPrimary(FALSE)
             /\ UNCHANGED <<txn, fact_risk_report>>
          \/ /\ outcome = "commit_raises"
             /\ calls' = calls \o <<"sp_LogRiskReport", "commit">>
             /\ txn' = Append(txn, LogRow("sp_LogRiskReport"))
             /\ sp_error' = "commit failed"
             /\ pc' = AfterPrimary(FALSE)
             /\ UNCHANGED fact_risk_report
          \/ /\ outcome = "ok"
             /\ calls' = calls \o <<"sp_LogRiskReport", "commit">>
             /\ fact_risk_report' = fact_risk_report \o Append(txn, LogRow("sp_LogRiskReport"))
             /\ txn' = <<>>
             /\ pc' = AfterPrimary(TRUE)
             /\ UNCHANGED sp_error
    /\ UNCHANGED <<otherVars, inputVars, renderLocals, publishLocals, log_error, log_ok, result,
                   fsVars, blobVars, conn>>

\* lines 691-711: the direct INSERT, conn.commit(); on an exception
\* conn.rollback() and re-raise into the handler of lines 717-720, which
\* returns False
LogFallback ==
    /\ pc = "log_fallback"
    /\ \E outcome \in {"execute_raises", "commit_raises", "ok"} :
          \/ /\ outcome = "execute_raises"
             /\ calls' = calls \o <<"INSERT", "rollback">>
             /\ \E rolledBack \in BOOLEAN : txn' = IF rolledBack THEN <<>> ELSE txn
             /\ log_error' = "INSERT failed"
             /\ log_ok' = "False"
             /\ pc' = "return"
             /\ UNCHANGED fact_risk_report
          \/ /\ outcome = "commit_raises"
             /\ calls' = calls \o <<"INSERT", "commit", "rollback">>
             /\ \E rolledBack \in BOOLEAN :
                   txn' = IF rolledBack THEN <<>> ELSE Append(txn, LogRow("INSERT"))
             /\ log_error' = "INSERT commit failed"
             /\ log_ok' = "False"
             /\ pc' = "return"
             /\ UNCHANGED fact_risk_report
          \/ /\ outcome = "ok"
             /\ calls' = calls \o <<"INSERT", "commit">>
             /\ fact_risk_report' = fact_risk_report \o Append(txn, LogRow("INSERT"))
             /\ txn' = <<>>
             /\ pc' = "log_close"
             /\ UNCHANGED <<log_error, log_ok>>
    /\ UNCHANGED <<otherVars, inputVars, renderLocals, publishLocals, sp_error, result, fsVars,
                   blobVars, conn>>

\* lines 713-715: cursor.close(); conn.close(); return True (an exception
\* of close reaches the handler of lines 717-720)
LogClose ==
    /\ pc = "log_close"
    /\ \E outcome \in {"close_raises", "ok"} :
          \/ /\ outcome = "close_raises"
             /\ log_error' = "close failed"
             /\ log_ok' = "False"
             /\ UNCHANGED conn
          \/ /\ outcome = "ok"
             /\ conn' = "closed"
             /\ log_ok' = "True"
             /\ UNCHANGED log_error
    /\ calls' = Append(calls, "close")
    /\ pc' = "return"
    /\ UNCHANGED <<otherVars, inputVars, renderLocals, publishLocals, sp_error, result, fsVars,
                   blobVars, txn, fact_risk_report>>

\* variant: success reports whether the log row was written
SuccessResultIfLogged ==
    [success |-> (log_ok = "True"),
     filename |-> docx_filename,
     filepath |-> docx_filepath,
     blob_url |-> blob_url,
     session_id |-> session_id,
     conversation_id |-> conversation_id,
     report_id |-> report_id]

\* variant: the result gains a per-stage error mapping
SuccessResultWithStageErrors ==
    [success |-> TRUE,
     filename |-> docx_filename,
     filepath |-> docx_filepath,
     blob_url |-> blob_url,
     session_id |-> session_id,
     conversation_id |-> conversation_id,
     report_id |-> report_id,
     stageErrors |-> [publish |-> upload_error, record |-> log_error]]

\* variant: the locator is dropped when the log write failed
SuccessResultDropsLocator ==
    [success |-> TRUE,
     filename |-> docx_filename,
     filepath |-> docx_filepath,
     blob_url |-> IF log_ok = "True" THEN blob_url ELSE None,
     session_id |-> session_id,
     conversation_id |-> conversation_id,
     report_id |-> report_id]

\* the JSON returned at lines 187-195
SuccessResult ==
    [success |-> TRUE,
     filename |-> docx_filename,
     filepath |-> docx_filepath,
     blob_url |-> blob_url,
     session_id |-> session_id,
     conversation_id |-> conversation_id,
     report_id |-> report_id]

\* lines 185-195: the value of _log_report_to_database is not looked at
ReturnSuccess ==
    /\ pc = "return"
    /\ result' = SuccessResult
    /\ pc' = "done"
    /\ UNCHANGED <<otherVars, inputVars, localVars, fsVars, blobVars, dbVars, calls>>

Next ==
    \/ InitializationError
    \/ GenerateFilename
    \/ WriteTempMarkdown
    \/ GenerateWordDocument
    \/ RenderExcept
    \/ RenderFinally
    \/ PublishSkip
    \/ PublishCall
    \/ UploadContainer
    \/ UploadBlob
    \/ LogConnect
    \/ LogPrimary
    \/ LogFallback
    \/ LogClose
    \/ ReturnSuccess

Spec == Init /\ [][Next]_vars

\* save_report_to_file is straight-line synchronous code: whenever a step is
\* possible the interpreter takes it
FairSpec == Spec /\ WF_vars(Next)

\* ========================================================= format_document
\* ---- bounds of the documents offered to format_document
\* largest number of leading '#' characters of a paragraph text
MaxHashes == 5
\* largest number of rows of a table
MaxRows == 4
\* largest number of cells of a row
MaxCells == 2
\* largest number of paragraphs of a table cell
MaxCellParas == 2

\* ---- strings are sequences of characters
Seq1(c, n) == [i \in 1..n |-> c]
\* str.startswith
StartsWith(s, prefix) ==
    /\ Len(s) >= Len(prefix)
    /\ SubSeq(s, 1, Len(prefix)) = prefix
\* the `in` operator on str
Contains(s, sub) ==
    \E i \in 1..(Len(s) - Len(sub) + 1) : SubSeq(s, i, i + Len(sub) - 1) = sub
\* str.lower, on the letters the style names below use
LowerChar(c) ==
    CASE c = "H" -> "h"
      [] c = "B" -> "b"
      [] c = "N" -> "n"
      [] c = "T" -> "t"
      [] OTHER -> c
Lower(s) == [i \in DOMAIN s |-> LowerChar(s[i])]
DigitChar(n) == <<"1", "2", "3", "4">>[n]
\* the literals 'heading n' and 'hn' of lines 315-324
HeadingWord(n) == <<"h", "e", "a", "d", "i", "n", "g", " ", DigitChar(n)>>
HWord(n) == <<"h", DigitChar(n)>>

\* ---- the document object model of the library
NoStyle == <<>>
StyleNames ==
    { NoStyle,
      <<"N", "o", "r", "m", "a", "l">>,
      <<"H", "e", "a", "d", "i", "n", "g", " ", "1">>,
      <<"h", "e", "a", "d", "i", "n", "g", " ", "2">>,
      <<"H", "3">>,
      <<"H", "e", "a", "d", "i", "n", "g", " ", "4">>,
      <<"H", "e", "a", "d", "i", "n", "g", " ", "1", "0">>,
      <<"B", "a", "t", "c", "h", "1">> }
\* paragraph.Format.OutlineLevel: a member of the OutlineLevel enum, or no
\* such attribute
OutlineLevels == {"NoAttr", "Body", "Level1", "Level2", "Level3", "Level4"}
\* the numeric value of an OutlineLevel member (zero-based, Body = 9)
OutlineValue(o) ==
    CASE o = "Level1" -> 0
      [] o = "Level2" -> 1
      [] o = "Level3" -> 2
      [] o = "Level4" -> 3
      [] OTHER -> 9
\* k '#' characters followed by a letter
HashText(k) == Seq1("#", k) \o <<"T">>
Texts == {<<>>} \cup {HashText(k) : k \in 0..MaxHashes}
FontSizes == {11, 15, 16, 18}

\* colours are ARGB tuples; a colour never set is the empty tuple
NoColor == <<>>
TextRun(size, bold) ==
    [kind |-> "TextRange", FontName |-> "Calibri", FontSize |-> size, Bold |-> bold,
     TextColor |-> NoColor]
\* a child object that is no TextRange and has no CharacterFormat
Picture ==
    [kind |-> "Picture", FontName |-> "none", FontSize |-> 0, Bold |-> FALSE,
     TextColor |-> NoColor]
ParagraphRuns ==
    {<<>>} \cup {<<TextRun(sz, FALSE)>> : sz \in FontSizes}
           \cup {<<Picture, TextRun(sz, FALSE)>> : sz \in {11, 18}}
           \cup {<<TextRun(11, FALSE), TextRun(18, TRUE)>>}
Paragraph(style, outline, text, runs) ==
    [StyleName |-> style, OutlineLevel |-> outline, Text |-> text, runs |-> runs,
     BeforeSpacing |-> 0, AfterSpacing |-> 0, LineSpacing |-> 0]
ParagraphInputs ==
    {Paragraph(st, o, t, rs) : st \in StyleNames, o \in OutlineLevels, t \in Texts,
                               rs \in ParagraphRuns}
DefaultParagraph == Paragraph(NoStyle, "Body", HashText(0), <<TextRun(11, FALSE)>>)

\* a table of nRows rows of nCells cells, each cell holding nParas paragraphs
\* with the child objects `runs`
CellRunInputs ==
    {<<TextRun(11, FALSE)>>, <<TextRun(20, TRUE)>>, <<Picture, TextRun(11, TRUE)>>}
MakeCell(nParas, runs) ==
    [BackColor |-> NoColor, Width |-> 0, VerticalAlignment |-> "Top",
     paras |-> [i \in 1..nParas |-> Paragraph(NoStyle, "Body", HashText(0), runs)]]
MakeTable(nRows, nCells, nParas, runs) ==
    [Borders |-> <<"None">>,
     rows |-> [r \in 1..nRows |->
                 [Height |-> 0, cells |-> [c \in 1..nCells |-> MakeCell(nParas, runs)]]]]
TableInputs ==
    {MakeTable(n, c, k, rs) : n \in 0..MaxRows, c \in 1..MaxCells, k \in 0..MaxCellParas,
                              rs \in CellRunInputs}
DefaultTable == MakeTable(3, 2, 1, <<TextRun(11, FALSE)>>)

\* a document of one section
MakeDocument(paragraphs, tables) ==
    << [Margins |-> <<90, 90, 90, 90>>, paragraphs |-> paragraphs, tables |-> tables] >>
\* the documents offered: any paragraph followed by a plain one and a plain
\* table, or a plain paragraph and any table followed by a plain one
DocumentInputs ==
    {MakeDocument(<<p, DefaultParagraph>>, <<DefaultTable>>) : p \in ParagraphInputs}
    \cup {MakeDocument(<<DefaultParagraph>>, <<t, DefaultTable>>) : t \in TableInputs}
\* the property reads and assignments format_document makes
PropertyCalls ==
    {"set Margins", "get StyleName", "get OutlineLevel", "get Text", "get FontSize",
     "set AfterSpacing", "set BeforeSpacing", "set FontName", "set FontSize", "set Bold",
     "set TextColor", "get Tables", "get Rows", "set Borders", "set Height",
     "set BackColor", "set Width", "set VerticalAlignment", "set LineSpacing"}

\* ---- classification, lines 306-382
IsTextRange(obj) == obj.kind = "TextRange"
HasTextRange(runs) == \E k \in DOMAIN runs : IsTextRange(runs[k])

\* Method 1, lines 310-328: substring tests on the lower-cased style name; a
\* missing or unreadable StyleName raises inside the try and is dropped
StyleSignal(p, rej) ==
    IF "get StyleName" \in rej \/ p.StyleName = NoStyle THEN 0
    ELSE LET style_name == Lower(p.StyleName) IN
         IF Contains(style_name, HeadingWord(1)) \/ Contains(style_name, HWord(1)) THEN 1
         ELSE IF Contains(style_name, HeadingWord(2)) \/ Contains(style_name, HWord(2)) THEN 2
         ELSE IF Contains(style_name, HeadingWord(3)) \/ Contains(style_name, HWord(3)) THEN 3
         ELSE IF Contains(style_name, HeadingWord(4)) \/ Contains(style_name, HWord(4)) THEN 4
         ELSE 0

\* line 339: `outline_level == 2` compares an enum member with an int; it is
\* true only when the members are ints and the member's value is 2
OutlineEqualsInt(o, n, isInt) == isInt /\ OutlineValue(o) = n

\* Method 2, lines 330-349
OutlineSignal(p, rej, isInt) ==
    IF "get OutlineLevel" \in rej \/ p.OutlineLevel = "NoAttr" THEN 0
    ELSE IF p.OutlineLevel = "Level1" THEN 1
    ELSE IF OutlineEqualsInt(p.OutlineLevel, 2, isInt) THEN 2
    ELSE IF p.OutlineLevel = "Level3" THEN 3
    ELSE IF p.OutlineLevel = "Level4" THEN 4
    ELSE 0

\* Method 3, lines 351-366: the startswith tests in the order the code makes them
HashSignal(text_content) ==
    IF text_content = <<>> THEN 0
    ELSE IF StartsWith(text_content, Seq1("#", 1)) THEN 1
    ELSE IF StartsWith(text_content, Seq1("#", 2)) THEN 2
    ELSE IF StartsWith(text_content, Seq1("#", 3)) THEN 3
    ELSE IF StartsWith(text_content, Seq1("#", 4)) THEN 4
    ELSE 0

\* Method 4, lines 368-382: some TextRange has FontSize >= 16
FontSignal(runs) ==
    IF \E k \in DOMAIN runs : IsTextRange(runs[k]) /\ runs[k].FontSize >= 16 THEN 1 ELSE 0

\* lines 306-382 given the four signals s, o, h, f: the heading level and
\* whether an unguarded read raised (paragraph.Text at line 353, FontSize at
\* line 376); a later method runs only while is_heading is still False
Classified(rej, hasTextRange, s, o, h, f) ==
    [level |-> IF s > 0 THEN s
               ELSE IF o > 0 THEN o
               ELSE IF "get Text" \in rej THEN 0
               ELSE IF h > 0 THEN h
               ELSE IF "get FontSize" \in rej THEN 0
               ELSE f,
     raised |-> /\ s = 0
                /\ o = 0
                /\ \/ "get Text" \in rej
                   \/ h = 0 /\ "get FontSize" \in rej /\ hasTextRange]

\* lines 306-382 for one paragraph
Classify(p, rej, isInt) ==
    Classified(rej, HasTextRange(p.runs), StyleSignal(p, rej), OutlineSignal(p, rej, isInt),
               HashSignal(p.Text), FontSignal(p.runs))

\* ---- heading styles, lines 263-272 and 401-416
heading1_color == <<255, 0, 75, 156>>
heading2_color == <<255, 58, 124, 193>>
heading3_color == <<255, 58, 124, 193>>
heading4_color == <<255, 0, 0, 0>>
border_color == <<255, 128, 128, 128>>
header_bg_color == <<255, 240, 240, 240>>
zebra_stripe_color == <<255, 245, 245, 250>>

\* variant: level 3 takes the lighter blue of the retry at line 442
HeadingColorLightLevel3(level) ==
    IF level = 1 THEN heading1_color
    ELSE IF level = 2 THEN heading2_color
    ELSE IF level = 3 THEN <<255, 79, 156, 241>>
    ELSE heading4_color

HeadingColor(level) ==
    IF level = 1 THEN heading1_color
    ELSE IF level = 2 THEN heading2_color
    ELSE IF level = 3 THEN heading3_color
    ELSE heading4_color

\* variant: level 1 headings get the level 2 size
HeadingFontSizeSmallTitle(level) ==
    IF level = 1 THEN 14
    ELSE IF level = 2 THEN 14
    ELSE IF level = 3 THEN 14
    ELSE IF level = 4 THEN 12
    ELSE 10

HeadingFontSize(level) ==
    IF level = 1 THEN 16
    ELSE IF level = 2 THEN 14
    ELSE IF level = 3 THEN 14
    ELSE IF level = 4 THEN 12
    ELSE 10

\* the first TextRange of a run list (0 when there is none)
FirstTextRange(runs) ==
    IF HasTextRange(runs)
       THEN CHOOSE k \in DOMAIN runs :
               /\ IsTextRange(runs[k])
               /\ \A j \in 1..(k-1) : ~IsTextRange(runs[j])
       ELSE 0

\* lines 423-450 on one TextRange, as far as the assignments get: FontName,
\* FontSize and Bold are unguarded, so the first rejected one raises; a
\* rejected TextColor is dropped (the retries assign the same property)
HeadingRun(obj, level, rej) ==
    IF "set FontName" \in rej THEN obj
    ELSE IF "set FontSize" \in rej THEN [obj EXCEPT !.FontName = "Arial"]
    ELSE IF "set Bold" \in rej
         THEN [obj EXCEPT !.FontName = "Arial", !.FontSize = HeadingFontSize(level)]
    ELSE [obj EXCEPT !.FontName = "Arial",
                     !.FontSize = HeadingFontSize(level),
                     !.Bold = TRUE,
                     !.TextColor = IF "set TextColor" \in rej THEN @ ELSE HeadingColor(level)]

\* line 456 on one TextRange of a body paragraph
BodyRun(obj, rej) ==
    IF "set FontName" \in rej THEN obj ELSE [obj EXCEPT !.FontName = "Arial"]

\* lines 386-399: BeforeSpacing then AfterSpacing inside one try
HeadingSpacing(p, rej) ==
    IF "set BeforeSpacing" \in rej THEN p
    ELSE IF "set AfterSpacing" \in rej THEN [p EXCEPT !.BeforeSpacing = 6]
    ELSE [p EXCEPT !.BeforeSpacing = 6, !.AfterSpacing = 8]

\* lines 297-304: AfterSpacing = 6 inside a try
ParagraphSpacing(p, rej) ==
    IF "set AfterSpacing" \in rej THEN p ELSE [p EXCEPT !.AfterSpacing = 6]

\* lines 384-456 for a paragraph classified as c whose first TextRange is at
\* index `first`: the runs are styled in order up to the first exception
StyleRuns(p, c, first, rej) ==
    [k \in DOMAIN p.runs |->
        IF ~IsTextRange(p.runs[k]) THEN p.runs[k]
        ELSE IF c.level > 0
             THEN IF rej \cap {"set FontName", "set FontSize", "set Bold"} # {} /\ k > first
                     THEN p.runs[k]
                     ELSE HeadingRun(p.runs[k], c.level, rej)
        ELSE IF "set FontName" \in rej /\ k > first THEN p.runs[k]
        ELSE BodyRun(p.runs[k], rej)]

\* lines 384-456: the paragraph as the code leaves it, the heading level,
\* and whether an unguarded call raised
StyleParagraph(p, c, first, rej) ==
    IF c.raised
       THEN [par |-> p, level |-> c.level, raised |-> TRUE]
       ELSE [par |-> [(IF c.level > 0 THEN HeadingSpacing(p, rej) ELSE p)
                         EXCEPT !.runs = StyleRuns(p, c, first, rej)],
             level |-> c.level,
             raised |-> /\ first > 0
                        /\ IF c.level > 0
                              THEN rej \cap {"set FontName", "set FontSize", "set Bold"} # {}
                              ELSE "set FontName" \in rej]

\* lines 294-456 for one paragraph
FormatParagraph(p, rej, isInt) ==
    StyleParagraph(ParagraphSpacing(p, rej), Classify(p, rej, isInt),
                   FirstTextRange(p.runs), rej)

\* ---- tables, lines 458-594
\* variant: every table run is made bold, as in the header row
CellRunAlwaysBold(obj, size, setBold, rej) ==
    IF ~IsTextRange(obj) \/ "set FontName" \in rej THEN obj
    ELSE IF "set FontSize" \in rej THEN [obj EXCEPT !.FontName = "Arial"]
    ELSE [obj EXCEPT !.FontName = "Arial", !.FontSize = size, !.Bold = TRUE]

\* a run of a table cell, lines 528-536 (size 9, bold) and 583-590 (size 8):
\* one try per object, the assignments stop at the first rejected one
CellRun(obj, size, setBold, rej) ==
    IF ~IsTextRange(obj) \/ "set FontName" \in rej THEN obj
    ELSE IF "set FontSize" \in rej THEN [obj EXCEPT !.FontName = "Arial"]
    ELSE IF setBold /\ "set Bold" \notin rej
         THEN [obj EXCEPT !.FontName = "Arial", !.FontSize = size, !.Bold = TRUE]
    ELSE [obj EXCEPT !.FontName = "Arial", !.FontSize = size]

CellRuns(para, size, setBold, rej) ==
    [para EXCEPT !.runs = [k \in DOMAIN para.runs |-> CellRun(para.runs[k], size, setBold, rej)]]

\* lines 496-513: Width, VerticalAlignment, then BeforeSpacing/AfterSpacing
\* of the first paragraph; each rejected assignment ends the block
HeaderCellPadding(cell, rej) ==
    IF "set Width" \in rej THEN cell
    ELSE IF "set VerticalAlignment" \in rej THEN [cell EXCEPT !.Width = 500]
    ELSE LET c1 == [cell EXCEPT !.Width = 500, !.VerticalAlignment = "Middle"] IN
         IF Len(cell.paras) = 0 \/ "set BeforeSpacing" \in rej THEN c1
         ELSE IF "set AfterSpacing" \in rej
              THEN [c1 EXCEPT !.paras[1].BeforeSpacing = 5]
         ELSE [c1 EXCEPT !.paras[1].BeforeSpacing = 5, !.paras[1].AfterSpacing = 5]

\* lines 519-525: LineSpacingRule, LineSpacing, AfterSpacing inside one try
HeaderParaSpacing(para, rej) ==
    IF "set LineSpacing" \in rej THEN para
    ELSE IF "set AfterSpacing" \in rej THEN [para EXCEPT !.LineSpacing = 12]
    ELSE [para EXCEPT !.LineSpacing = 12, !.AfterSpacing = 4]

\* lines 514-536: the paragraphs of a header cell
HeaderCellParas(cell, rej) ==
    [cell EXCEPT !.paras = [i \in DOMAIN cell.paras |->
                              CellRuns(HeaderParaSpacing(cell.paras[i], rej), 9, TRUE, rej)]]

\* line 490: BackColor of a header cell
HeaderCellShading(cell, rej) ==
    IF "set BackColor" \in rej THEN cell ELSE [cell EXCEPT !.BackColor = header_bg_color]

\* lines 486-536 for one cell of the header row
HeaderCell(cell, rej) ==
    HeaderCellParas(HeaderCellPadding(HeaderCellShading(cell, rej), rej), rej)

\* lines 568-573 for one paragraph; the loop stops at the first rejected
\* assignment, which is the same for every paragraph
BodyParaSpacing(para, rej) ==
    IF "set LineSpacing" \in rej THEN para
    ELSE IF "set BeforeSpacing" \in rej THEN [para EXCEPT !.LineSpacing = 12]
    ELSE IF "set AfterSpacing" \in rej
         THEN [para EXCEPT !.LineSpacing = 12, !.BeforeSpacing = 5]
    ELSE [para EXCEPT !.LineSpacing = 12, !.BeforeSpacing = 5, !.AfterSpacing = 5]

\* lines 558-578: Width, VerticalAlignment, then the spacing of the paragraphs
BodyCellPadding(cell, rej) ==
    IF "set Width" \in rej THEN cell
    ELSE IF "set VerticalAlignment" \in rej THEN [cell EXCEPT !.Width = 500]
    ELSE LET stops == rej \cap {"set LineSpacing", "set BeforeSpacing", "set AfterSpacing"} # {}
         IN [cell EXCEPT !.Width = 500,
                         !.VerticalAlignment = "Middle",
                         !.paras = [i \in DOMAIN cell.paras |->
                                      IF stops /\ i > 1 THEN cell.paras[i]
                                      ELSE BodyParaSpacing(cell.paras[i], rej)]]

\* variant: the odd rows are striped
ZebraRowOdd(row_idx) == row_idx % 2 = 1

\* line 543: if row_idx % 2 == 0
ZebraRow(row_idx) == row_idx % 2 = 0

\* lines 580-590: the runs of a body cell
BodyCellRuns(cell, rej) ==
    [cell EXCEPT !.paras = [i \in DOMAIN cell.paras |->
                              CellRuns(cell.paras[i], 8, FALSE, rej)]]

\* lines 543-552: Height and BackColor of a striped row, inside one try
ZebraHeight(row, row_idx, rej) ==
    IF ZebraRow(row_idx) /\ "set Height" \notin rej THEN [row EXCEPT !.Height = 18] ELSE row
ZebraShading(cell, row_idx, rej) ==
    IF ZebraRow(row_idx) /\ rej \cap {"set Height", "set BackColor"} = {}
       THEN [cell EXCEPT !.BackColor = zebra_stripe_color]
       ELSE cell

\* lines 539-590 for the row at index row_idx >= 1
BodyRow(row, row_idx, rej) ==
    [ZebraHeight(row, row_idx, rej) EXCEPT !.cells =
        [c \in DOMAIN row.cells |->
            BodyCellRuns(BodyCellPadding(ZebraShading(row.cells[c], row_idx, rej), rej), rej)]]

\* lines 476-536 for the header row
HeaderRow(row, rej) ==
    [(IF "set Height" \in rej THEN row ELSE [row EXCEPT !.Height = 20])
        EXCEPT !.cells = [c \in DOMAIN row.cells |-> HeaderCell(row.cells[c], rej)]]

\* lines 465-472: table borders inside a try
TableBorders(table, rej) ==
    IF "set Borders" \in rej THEN table
    ELSE [table EXCEPT !.Borders = <<"Single", border_color>>]

\* lines 461-592 for one table; an exception of table.Rows is caught at
\* line 591 and leaves the rows as they were
FormatTable(table, rej) ==
    IF "get Rows" \in rej THEN TableBorders(table, rej)
    ELSE [TableBorders(table, rej) EXCEPT !.rows =
             [r \in DOMAIN table.rows |->
                 IF r = 1 THEN HeaderRow(table.rows[r], rej)
                 ELSE BodyRow(table.rows[r], r - 1, rej)]]

\* the least element of a non-empty set of numbers
Min(S) == CHOOSE x \in S : \A y \in S : x <= y

\* index of the first result that raised, or one past the last
FirstRaised(res) ==
    IF \E j \in DOMAIN res : res[j].raised
       THEN Min({j \in DOMAIN res : res[j].raised})
       ELSE Len(res) + 1

\* lines 280-594 for one section, given the result `res` of formatting each
\* paragraph and the formatted tables `ts`: margins (unguarded), the
\* paragraphs in order up to the first exception, then the tables inside the
\* try of lines 459-594
SectionResult(section, rej, res, ts) ==
    IF "set Margins" \in rej
       THEN [section |-> section,
             levels |-> [j \in DOMAIN res |-> 0],
             raised |-> TRUE]
       ELSE [section |->
                [section EXCEPT
                    !.Margins = <<72, 72, 72, 72>>,
                    !.paragraphs = [j \in DOMAIN res |->
                                      IF j <= FirstRaised(res) THEN res[j].par ELSE @[j]],
                    !.tables = IF FirstRaised(res) <= Len(res) \/ "get Tables" \in rej
                                  THEN @ ELSE ts],
             levels |-> [j \in DOMAIN res |->
                           IF j <= FirstRaised(res) THEN res[j].level ELSE 0],
             raised |-> FirstRaised(res) <= Len(res)]

FormatSection(section, rej, isInt) ==
    SectionResult(section, rej,
                  [j \in DOMAIN section.paragraphs |->
                      FormatParagraph(section.paragraphs[j], rej, isInt)],
                  [t \in DOMAIN section.tables |-> FormatTable(section.tables[t], rej)])

\* format_document, lines 261-596, given the result `res` of formatting each
\* section: the sections in order up to the first exception
DocumentResult(doc, res) ==
    [document |-> [i \in DOMAIN doc |->
                     IF i <= FirstRaised(res) THEN res[i].section ELSE doc[i]],
     levels |-> [i \in DOMAIN doc |->
                   IF i <= FirstRaised(res) THEN res[i].levels
                   ELSE [j \in DOMAIN doc[i].paragraphs |-> 0]],
     raised |-> FirstRaised(res) <= Len(res)]

FormatDocument(doc, rej, isInt) ==
    DocumentResult(doc, [i \in DOMAIN doc |-> FormatSection(doc[i], rej, isInt)])

\* number of format_document calls made on one document
MaxPasses == 2

\* one call format_document(document); a call that raised is not repeated
FormatDocumentCall ==
    /\ pc = "idle"
    /\ passes < MaxPasses
    /\ ~fmt_raised
    /\ LET r == FormatDocument(document, rejects, outline_enum_is_int) IN
          /\ document' = r.document
          /\ heading_levels' = r.levels
          /\ fmt_raised' = r.raised
    /\ passes' = passes + 1
    /\ UNCHANGED <<pipelineVars, retryVars, namingVars, reportsVars, input_document, rejects,
                   outline_enum_is_int>>

\* a loaded document, a library that accepts every call
FormatInit ==
    /\ RetryIdle
    /\ PipelineIdle
    /\ NamingIdle
    /\ ReportsIdle
    /\ input_document \in DocumentInputs
    /\ document = input_document
    /\ rejects = {}
    /\ outline_enum_is_int \in BOOLEAN
    /\ heading_levels = <<>>
    /\ fmt_raised = FALSE
    /\ passes = 0

\* a loaded document, a library that rejects one property read or assignment
FaultyFormatInit ==
    /\ RetryIdle
    /\ PipelineIdle
    /\ NamingIdle
    /\ ReportsIdle
    /\ input_document \in DocumentInputs
    /\ document = input_document
    /\ \E call \in PropertyCalls : rejects = {call}
    /\ outline_enum_is_int \in BOOLEAN
    /\ heading_levels = <<>>
    /\ fmt_raised = FALSE
    /\ passes = 0

FormatNext == FormatDocumentCall

SpecFormat == FormatInit /\ [][FormatNext]_vars
SpecFormatFaulty == FaultyFormatInit /\ [][FormatNext]_vars

\* ============================================================== properties
Range(seq) == {seq[i] : i \in DOMAIN seq}
Count(seq, x) == Cardinality({i \in DOMAIN seq : seq[i] = x})
Called(name) == name \in Range(calls)
\* position of the first call of `name` in the call log (0 when never called)
FirstCall(name) ==
    IF Called(name) THEN CHOOSE i \in DOMAIN calls :
                            /\ calls[i] = name
                            /\ \A j \in 1..(i-1) : calls[j] # name
                    ELSE 0

Done == pc = "done"
\* the Render stage ran and raised nothing
RenderSucceeded ==
    /\ Called("_generate_word_document")
    /\ word_error = NoError
    /\ pc # "generate"
PublishPcs == {"publish", "upload_container", "upload_blob"}
RecordPcs == {"record", "log_primary", "log_fallback", "log_close", "return"}
\* the upload was not made: no client, or an exception was raised while
\* checking/creating the container or uploading and no blob was stored
UploadNotDone ==
    \/ ~blob_service_client
    \/ /\ (container_error # NoError \/ upload_error # NoError)
       /\ blobs = {}
\* both log writes failed
RecordBothFailed ==
    /\ sp_error # NoError
    /\ log_error \in {"INSERT failed", "INSERT commit failed"}
HasStageError(r, stage) ==
    /\ "stageErrors" \in DOMAIN r
    /\ stage \in DOMAIN r.stageErrors
    /\ r.stageErrors[stage] # NoError
SuccessKeys ==
    {"success", "filename", "filepath", "blob_url", "session_id", "conversation_id",
     "report_id"}

\* C1: when the Render stage raises, the returned object has success = false
\* and carries the render error message, and neither _upload_to_data_lake
\* nor _log_report_to_database is invoked at any point of the run.
C1_RenderFailureAborts ==
    word_error # NoError =>
        /\ ~Called("_upload_to_data_lake")
        /\ ~Called("_log_report_to_database")
        /\ Done => /\ result.success = FALSE
                   /\ result.error = <<"Word document generation failed: ", word_error>>
C1_Witness ==
    /\ Done
    /\ word_error = "SaveToFile failed"
    /\ docxOnDisk

\* C2: for every Publish and Record outcome, the returned success flag is
\* true exactly when the Render stage completed without raising.
C2_SuccessIffRender ==
    Done => (result.success = TRUE <=> RenderSucceeded)
C2_Witness ==
    /\ Done
    /\ result.success = TRUE
    /\ upload_error = "upload_blob failed"
    /\ RecordBothFailed

\* C3 (as claimed): when Render succeeded and the upload could not be made
\* (no client, or an exception while checking/creating the container or
\* uploading), the returned locator is file://<absolute docx path> and
\* success is true.
C3_LocalFallbackOnUploadFailure ==
    (Done /\ RenderSucceeded /\ UploadNotDone) =>
        /\ result.success = TRUE
        /\ result.blob_url = LocalFileUrl(docx_filepath)

RecordStepFrame ==
    pc \in RecordPcs =>
          /\ blob_url' = blob_url
          /\ docxOnDisk' = docxOnDisk
          /\ timestamp' = timestamp
          /\ report_id' = report_id
          /\ pc' = "done" =>
                /\ result'.success = TRUE
                /\ result'.filename = docx_filename
                /\ result'.filepath = docx_filepath
                /\ result'.blob_url = blob_url

\* C5: during the Record stage the locator, the filename and the artifact
\* on disk do not change, and the result returned after it has success =
\* true and the filename, filepath and locator that were fixed before the
\* Record stage began, whichever way the log write ended.
C5_RecordLeavesResultAlone ==
    [][RecordStepFrame]_vars
C5_Witness ==
    /\ Done
    /\ RecordBothFailed
    /\ docxOnDisk
    /\ result.blob_url = blob_url
    /\ IsRemoteUrl(blob_url)

\* C6 (as claimed): whenever Render completed without error the returned
\* locator is a remote URI or a file:// path, never a not-found or absent
\* value.
C6_LocatorNeverNotFound ==
    (Done /\ RenderSucceeded) =>
        /\ "blob_url" \in DOMAIN result
        /\ IsRemoteUrl(result.blob_url) \/ IsLocalFileUrl(result.blob_url)

\* C7 (as claimed): the pipeline is in Publish or Record only with the
\* .docx present at docx_filepath, and at the end the .docx exists exactly
\* when the Render stage reported no error.
C7_ArtifactIffRenderSucceeded ==
    /\ pc \in (PublishPcs \cup RecordPcs) => docxOnDisk
    /\ Done => (docxOnDisk <=> RenderSucceeded)

\* C8: every run ends by returning an object with a boolean success field;
\* no exception leaves save_report_to_file.
C8_AlwaysReturnsResult ==
    <>[](/\ Done
         /\ "success" \in DOMAIN result
         /\ result.success \in BOOLEAN)
C8_Witness ==
    /\ Done
    /\ word_error = "temp.write failed"
    /\ result.success = FALSE

\* C9 (as claimed): every run that reaches the Record stage attempts
\* sp_LogRiskReport exactly once, the INSERT at most once and only after
\* the primary attempt failed, and nothing more.
C9_PrimaryExactlyOnce ==
    (Done /\ Called("_log_report_to_database")) =>
        /\ Count(calls, "sp_LogRiskReport") = 1
        /\ Count(calls, "INSERT") <= 1
        /\ Called("INSERT") => sp_error # NoError

\* C9 (amended): sp_LogRiskReport is attempted at most once, and exactly
\* once in every run whose Record stage obtained a connection and a cursor;
\* the INSERT is attempted at most once and only after the primary attempt
\* was made and failed; there is no third write attempt; when connecting or
\* creating the cursor fails, no write is attempted at all.
C9_AtMostTwoWrites ==
    /\ Count(calls, "sp_LogRiskReport") <= 1
    /\ Count(calls, "INSERT") <= 1
    /\ Called("INSERT") =>
          /\ sp_error # NoError
          /\ FirstCall("sp_LogRiskReport") > 0
          /\ FirstCall("sp_LogRiskReport") < FirstCall("INSERT")
    /\ log_error \in {"connect failed", "cursor failed"} =>
          (~Called("sp_LogRiskReport") /\ ~Called("INSERT"))
    /\ (Done /\ Called("_log_report_to_database")
          /\ log_error \notin {"connect failed", "cursor failed"})
          => Count(calls, "sp_LogRiskReport") = 1
C9_Witness ==
    /\ Done
    /\ sp_error = "commit failed"
    /\ Count(calls, "INSERT") = 1
    /\ log_ok = "True"

\* C10 (as claimed): the temporary markdown file is gone when
\* save_report_to_file returns, on every exit path.
C10_TempFileRemoved ==
    Done => ~tempOnDisk

\* ------------------------------------------- properties of format_document
Formatted == passes >= 1 /\ ~fmt_raised
\* the paragraphs of the document, as <<section, index>> pairs
ParagraphIds ==
    UNION {{<<i, j>> : j \in DOMAIN input_document[i].paragraphs} :
              i \in DOMAIN input_document}
InputParagraph(id) == input_document[id[1]].paragraphs[id[2]]
OutputParagraph(id) == document[id[1]].paragraphs[id[2]]
LevelOf(id) == heading_levels[id[1]][id[2]]
\* number of leading '#' characters
LeadingHashes(text) ==
    Cardinality({k \in 1..Len(text) : StartsWith(text, Seq1("#", k))})
AtMost4(n) == IF n > 4 THEN 4 ELSE n
\* the four signals as the specification states them
DeclaredStyleLevel(p) ==
    IF \E n \in 1..4 : Lower(p.StyleName) \in {HeadingWord(n), HWord(n)}
       THEN CHOOSE n \in 1..4 : Lower(p.StyleName) \in {HeadingWord(n), HWord(n)}
       ELSE 0
DeclaredOutlineLevel(p) ==
    CASE p.OutlineLevel = "Level1" -> 1
      [] p.OutlineLevel = "Level2" -> 2
      [] p.OutlineLevel = "Level3" -> 3
      [] p.OutlineLevel = "Level4" -> 4
      [] OTHER -> 0
HashPrefixLevel(p) == AtMost4(LeadingHashes(p.Text))
LargeFontLevel(p) ==
    IF \E k \in DOMAIN p.runs : IsTextRange(p.runs[k]) /\ p.runs[k].FontSize >= 16
       THEN 1 ELSE 0
FirstSignalLevel(p) ==
    IF DeclaredStyleLevel(p) > 0 THEN DeclaredStyleLevel(p)
    ELSE IF DeclaredOutlineLevel(p) > 0 THEN DeclaredOutlineLevel(p)
    ELSE IF HashPrefixLevel(p) > 0 THEN HashPrefixLevel(p)
    ELSE LargeFontLevel(p)

\* C11 (as claimed): a paragraph with no declared heading style and no
\* declared outline level whose text starts with k >= 1 '#' characters is
\* given heading level k, and level 4 when k >= 4.
C11_HashPrefixGivesLevel ==
    Formatted =>
        \A id \in ParagraphIds :
            LET p == InputParagraph(id) IN
            (DeclaredStyleLevel(p) = 0 /\ DeclaredOutlineLevel(p) = 0
                /\ LeadingHashes(p.Text) >= 1)
              => LevelOf(id) = AtMost4(LeadingHashes(p.Text))

\* C12 (as claimed): the heading level of every paragraph is the level of
\* the first signal that fires in the order style name, outline level,
\* '#' prefix, font size >= 16.
C12_FirstSignalWins ==
    Formatted =>
        \A id \in ParagraphIds : LevelOf(id) = FirstSignalLevel(InputParagraph(id))

\* C13: a second format_document call on an already formatted document
\* changes neither the document (every style attribute of every run,
\* paragraph, cell, row and table) nor any paragraph's heading level.
C13_SecondPassChangesNothing ==
    [][passes >= 1 => (document' = document /\ heading_levels' = heading_levels)]_vars
C13_Witness ==
    /\ passes = 2
    /\ LevelOf(<<1, 1>>) = 1
    /\ FirstSignalLevel(InputParagraph(<<1, 1>>)) = 1
    /\ DeclaredStyleLevel(InputParagraph(<<1, 1>>)) = 0
    /\ DeclaredOutlineLevel(InputParagraph(<<1, 1>>)) = 0
    /\ HashPrefixLevel(InputParagraph(<<1, 1>>)) = 0
    /\ document # input_document

\* C14 (as claimed): whichever single property read or assignment the
\* library rejects, format_document does not raise.
C14_FormatNeverRaises ==
    ~fmt_raised

\* the tables of the document, as <<section, index>> pairs, and their parts
TableIds ==
    UNION {{<<i, t>> : t \in DOMAIN input_document[i].tables} :
              i \in DOMAIN input_document}
InputRows(id) == input_document[id[1]].tables[id[2]].rows
OutputRows(id) == document[id[1]].tables[id[2]].rows
\* the text runs of a row
RowRuns(row) ==
    UNION {UNION {{row.cells[c].paras[k].runs[o] : o \in
                       {o \in DOMAIN row.cells[c].paras[k].runs :
                           IsTextRange(row.cells[c].paras[k].runs[o])}} :
                    k \in DOMAIN row.cells[c].paras} :
              c \in DOMAIN row.cells}
\* the positions <<cell, paragraph, object>> of the text runs of a row
RunPositions(row) ==
    UNION {UNION {{<<c, k, o>> : o \in
                       {o \in DOMAIN row.cells[c].paras[k].runs :
                           IsTextRange(row.cells[c].paras[k].runs[o])}} :
                    k \in DOMAIN row.cells[c].paras} :
              c \in DOMAIN row.cells}
RunAt(row, pos) == row.cells[pos[1]].paras[pos[2]].runs[pos[3]]

\* C18: after a pass every cell of row 0 of every table has the header
\* background and every run of row 0 is 9pt bold; a body row r >= 1 has the
\* zebra background exactly when r is even, and the cells of odd rows keep
\* the background they had.
C18_HeaderAndZebraRows ==
    Formatted =>
        \A id \in TableIds :
            \A r \in DOMAIN OutputRows(id) :
                LET row == OutputRows(id)[r]
                    row_idx == r - 1
                IN \A c \in DOMAIN row.cells :
                      IF row_idx = 0
                         THEN /\ row.cells[c].BackColor = <<255, 240, 240, 240>>
                              /\ \A run \in RowRuns(row) : run.FontSize = 9 /\ run.Bold
                         ELSE /\ (row.cells[c].BackColor = <<255, 245, 245, 250>>)
                                    <=> (row_idx % 2 = 0)
                              /\ row_idx % 2 = 1 =>
                                    row.cells[c].BackColor
                                        = InputRows(id)[r].cells[c].BackColor
C18_Witness ==
    /\ Formatted
    /\ Len(OutputRows(<<1, 1>>)) = 4
    /\ Len(OutputRows(<<1, 1>>)[4].cells) = 2
    /\ OutputRows(<<1, 1>>)[1].cells[1].BackColor = <<255, 240, 240, 240>>
    /\ OutputRows(<<1, 1>>)[3].cells[1].BackColor = <<255, 245, 245, 250>>
    /\ OutputRows(<<1, 1>>)[4].cells[2].BackColor = NoColor
    /\ RowRuns(OutputRows(<<1, 1>>)[1]) # {}

\* C19 (as claimed): after a pass every run of every body row is 8pt and
\* not bold, whatever it was before.
C19_BodyRunsNotBold ==
    Formatted =>
        \A id \in TableIds :
            \A r \in DOMAIN OutputRows(id) :
                r >= 2 => \A run \in RowRuns(OutputRows(id)[r]) :
                              run.FontSize = 8 /\ ~run.Bold
\* C19 (amended): after a pass every run of every body row is 8pt Arial and
\* has the weight it had before the pass.
C19_BodyRunsKeepWeight ==
    Formatted =>
        \A id \in TableIds :
            \A r \in DOMAIN OutputRows(id) :
                r >= 2 => \A pos \in RunPositions(OutputRows(id)[r]) :
                              /\ RunAt(OutputRows(id)[r], pos).FontSize = 8
                              /\ RunAt(OutputRows(id)[r], pos).FontName = "Arial"
                              /\ RunAt(OutputRows(id)[r], pos).Bold
                                    = RunAt(InputRows(id)[r], pos).Bold
C19_Witness ==
    /\ Formatted
    /\ Len(OutputRows(<<1, 1>>)) >= 3
    /\ \E pos \in RunPositions(OutputRows(<<1, 1>>)[3]) :
          /\ RunAt(InputRows(<<1, 1>>)[3], pos).FontSize = 20
          /\ RunAt(InputRows(<<1, 1>>)[3], pos).Bold
          /\ RunAt(OutputRows(<<1, 1>>)[3], pos).FontSize = 8
          /\ RunAt(OutputRows(<<1, 1>>)[3], pos).Bold
    /\ \E pos \in RunPositions(OutputRows(<<1, 2>>)[2]) :
          ~RunAt(OutputRows(<<1, 2>>)[2], pos).Bold

MaxInvocations == 2
\* number of distinct remainders of a uuid after its first 8 characters
MaxUuidTails == 2
\* str(uuid.uuid4()): the first 8 characters and the remaining 28
Uuids == ReportIds \X (1..MaxUuidTails)
NoUuid == <<"None", 0>>
\* line 110: str(uuid.uuid4())[:8]
UuidPrefix(u) == u[1]
NotNamed == [pc |-> "start", timestamp |-> 0, uuid |-> NoUuid, report_id |-> "None"]
InvocationFilename(i) == DocxFilename(invocations[i].timestamp, invocations[i].report_id)

\* the clock passes to the next second
Tick ==
    /\ pc = "idle"
    /\ now < MaxClock
    /\ now' = now + 1
    /\ UNCHANGED <<pipelineVars, retryVars, fmtVars, reportsVars, invocations, drawn, artifacts>>

\* lines 109-113 of invocation i: timestamp from the clock, a fresh uuid4
\* truncated to 8 characters
NameArtifact(i) ==
    /\ pc = "idle"
    /\ invocations[i].pc = "start"
    /\ \E u \in Uuids \ drawn :
          /\ invocations' = [invocations EXCEPT ![i] =
                               [pc |-> "named", timestamp |-> now, uuid |-> u,
                                report_id |-> UuidPrefix(u)]]
          /\ drawn' = drawn \cup {u}
    /\ UNCHANGED <<pipelineVars, retryVars, fmtVars, reportsVars, now, artifacts>>

\* line 239 of invocation i: document.SaveToFile(docx_filepath) creates the
\* file or replaces the one of that name
SaveArtifact(i) ==
    /\ pc = "idle"
    /\ invocations[i].pc = "named"
    /\ invocations' = [invocations EXCEPT ![i].pc = "saved"]
    /\ artifacts' = {a \in artifacts : a[1] # InvocationFilename(i)}
                       \cup {<<InvocationFilename(i), i>>}
    /\ UNCHANGED <<pipelineVars, retryVars, fmtVars, reportsVars, now, drawn>>

NamingInit ==
    /\ RetryIdle
    /\ PipelineIdle
    /\ FormatIdle
    /\ ReportsIdle
    /\ now = 1
    /\ invocations = [i \in 1..MaxInvocations |-> NotNamed]
    /\ drawn = {}
    /\ artifacts = {}

NamingNext ==
    \/ Tick
    \/ \E i \in 1..MaxInvocations : NameArtifact(i)
    \/ \E i \in 1..MaxInvocations : SaveArtifact(i)

SpecNaming == NamingInit /\ [][NamingNext]_vars

\* C15 (as claimed): any two invocations that have named their artifact
\* have distinct report ids and distinct filenames, and the file an
\* invocation saved is not replaced by another invocation.
C15_DistinctArtifactNames ==
    \A i \in DOMAIN invocations :
        /\ \A j \in DOMAIN invocations :
              (i # j /\ invocations[i].pc # "start" /\ invocations[j].pc # "start")
                 => /\ invocations[i].report_id # invocations[j].report_id
                    /\ InvocationFilename(i) # InvocationFilename(j)
        /\ invocations[i].pc = "saved" => <<InvocationFilename(i), i>> \in artifacts

\* --------------------------------------------------------------- get_reports
\* largest number of rows in fact_risk_report
MaxReportRows == 2
\* a committed row as SELECT * returns it; created_date is stamped by the
\* database when the row is inserted
StoredRow(s, c, n, d) ==
    [session_id |-> s, conversation_id |-> c,
     filename |-> DocxFilename(d, n),
     blob_url |-> LocalFileUrl(DocxFilepath(DocxFilename(d, n))),
     via |-> "INSERT", created_date |-> d]
\* the tables offered: row n was inserted n-th, at a clock reading no earlier
\* than that of the row before it
StoredTables ==
    UNION {{t \in [1..n -> SessionIds \X ConversationIds \X (1..MaxClock)] :
               \A k \in 1..n : k > 1 => t[k][3] >= t[k - 1][3]} : n \in 0..MaxReportRows}
TableOf(t) == [k \in DOMAIN t |-> StoredRow(t[k][1], t[k][2], k, t[k][3])]
\* the values a caller passes as a filter: None, the empty string, an id
SessionFilters == {"None", ""} \cup SessionIds
ConversationFilters == {"None", ""} \cup ConversationIds

\* lines 890 and 894: `if session_id:`, `if conversation_id:`
Truthy(arg) == arg \notin {"None", ""}

\* variant: the where clauses are joined with OR
SelectedEither(row, s, c) ==
    \/ ~Truthy(s) /\ ~Truthy(c)
    \/ Truthy(s) /\ row.session_id = s
    \/ Truthy(c) /\ row.conversation_id = c

\* lines 886-901: the WHERE clause built from the truthy filters
Selected(row, s, c) ==
    /\ Truthy(s) => row.session_id = s
    /\ Truthy(c) => row.conversation_id = c

\* line 902: ORDER BY created_date DESC
OrderedByCreatedDateDesc(rows) ==
    \A k \in DOMAIN rows : k > 1 => rows[k - 1].created_date >= rows[k].created_date

\* lines 905-909: the row sequences cursor.fetchall() may return; rows of
\* equal created_date come in any order
FetchAll(table, s, c) ==
    LET sel == {k \in DOMAIN table : Selected(table[k], s, c)}
        n == Cardinality(sel)
    IN {[k \in 1..n |-> table[f[k]]] :
           f \in {g \in [1..n -> sel] :
                     /\ \A a, b \in 1..n : a # b => g[a] # g[b]
                     /\ OrderedByCreatedDateDesc([k \in 1..n |-> table[g[k]]])}}

\* variant: an empty result is reported as an error
ReportsJsonEmptyIsError(rows) ==
    IF rows = <<>> THEN [kind |-> "object", reports |-> <<>>, error |-> "no reports"]
    ELSE [kind |-> "array", reports |-> rows, error |-> NoError]

\* lines 912-920: json.dumps(reports, default=str), a JSON array of objects
ReportsJson(rows) == [kind |-> "array", reports |-> rows, error |-> NoError]
\* lines 925-927: json.dumps({"error": str(e)})
ErrorJson(e) == [kind |-> "object", reports |-> <<>>, error |-> e]

\* lines 872-927: one get_reports call
GetReports ==
    /\ pc = "idle"
    /\ reports = NotReturned
    /\ \E outcome \in {"connect_raises", "execute_raises", "ok"} :
          \/ /\ outcome = "connect_raises"
             /\ get_error' = "connect failed"
             /\ reports' = ErrorJson("connect failed")
          \/ /\ outcome = "execute_raises"
             /\ get_error' = "execute failed"
             /\ reports' = ErrorJson("execute failed")
          \/ /\ outcome = "ok"
             /\ \E rows \in FetchAll(fact_risk_report, get_session_id, get_conversation_id) :
                   reports' = ReportsJson(rows)
             /\ UNCHANGED get_error
    /\ UNCHANGED <<pipelineVars, retryVars, fmtVars, namingVars, get_session_id,
                   get_conversation_id>>

ReportsInit ==
    /\ RetryIdle
    /\ RunIdle
    /\ FormatIdle
    /\ NamingIdle
    /\ \E t \in StoredTables : fact_risk_report = TableOf(t)
    /\ get_session_id \in SessionFilters
    /\ get_conversation_id \in ConversationFilters
    /\ get_error = NoError
    /\ reports = NotReturned

ReportsNext == GetReports

SpecReports == ReportsInit /\ [][ReportsNext]_vars

\* ---------------------------------------------------- properties of get_reports
Returned == reports.kind # "None"
Range1(q) == {q[k] : k \in DOMAIN q}
\* the rows whose columns equal the filters that were supplied
RowsEqualTo(supplied(_)) ==
    {row \in Range1(fact_risk_report) :
        /\ supplied(get_session_id) => row.session_id = get_session_id
        /\ supplied(get_conversation_id) => row.conversation_id = get_conversation_id}
IsSupplied(arg) == arg # "None"
ReturnsExactly(rows) ==
    /\ Range1(reports.reports) = rows
    /\ Len(reports.reports) = Cardinality(rows)
    /\ OrderedByCreatedDateDesc(reports.reports)

\* C16 (as claimed): a successful get_reports returns exactly the rows whose
\* session_id and conversation_id equal the filters that were passed (every
\* row when none was passed), ordered by created_date descending.
C16_ExactFilter ==
    (Returned /\ get_error = NoError) => ReturnsExactly(RowsEqualTo(IsSupplied))
\* C16 (amended): a successful get_reports returns exactly the rows whose
\* session_id and conversation_id equal the non-empty filters that were
\* passed, None and the empty string both meaning no filter, ordered by
\* created_date descending.
C16_NonEmptyFilter ==
    (Returned /\ get_error = NoError) => ReturnsExactly(RowsEqualTo(Truthy))
C16_Witness ==
    /\ Returned
    /\ get_error = NoError
    /\ get_session_id = "S1"
    /\ get_conversation_id = ""
    /\ Len(fact_risk_report) = 2
    /\ Len(reports.reports) = 1
    /\ fact_risk_report[1].conversation_id # fact_risk_report[2].conversation_id

\* C17: when the store is reached and queried, get_reports returns a list,
\* the empty list when no row matches; it returns an error object only when
\* connecting or querying failed; it returns in every case.
C17_EmptyListNotError ==
    /\ Returned =>
          /\ get_error = NoError =>
                /\ reports.kind = "array"
                /\ RowsEqualTo(Truthy) = {} => reports.reports = <<>>
          /\ reports.kind = "object" <=> get_error # NoError
          /\ reports.kind = "object" => reports.error = get_error
    /\ ~Returned => ENABLED GetReports
C17_Witness ==
    /\ Returned
    /\ get_error = NoError
    /\ get_session_id = "S1"
    /\ fact_risk_report # <<>>
    /\ reports.kind = "array"
    /\ reports.reports = <<>>

\* ------------------------------------ further properties of format_document
\* no signal other than the style name fires, as the specification states them
OnlyStyleMayFire(p) ==
    DeclaredOutlineLevel(p) = 0 /\ HashPrefixLevel(p) = 0 /\ LargeFontLevel(p) = 0

\* C21 (as claimed): the style-name signal fires with level n exactly when
\* the style name equals 'heading n' or 'hn' ignoring case; a paragraph whose
\* style name only contains such text, and on which no other signal fires,
\* is a body paragraph.
C21_StyleNameEquality ==
    Formatted =>
        \A id \in ParagraphIds :
            LET p == InputParagraph(id) IN
            /\ DeclaredStyleLevel(p) > 0 => LevelOf(id) = DeclaredStyleLevel(p)
            /\ (DeclaredStyleLevel(p) = 0 /\ OnlyStyleMayFire(p)) => LevelOf(id) = 0

\* C22 (as claimed): a paragraph on which the style-name signal does not
\* fire and whose declared outline level is n in 1..4 has heading level n.
C22_OutlineLevelUniform ==
    Formatted =>
        \A id \in ParagraphIds :
            LET p == InputParagraph(id) IN
            (StyleSignal(p, rejects) = 0 /\ DeclaredStyleLevel(p) = 0
                /\ DeclaredOutlineLevel(p) > 0)
              => LevelOf(id) = DeclaredOutlineLevel(p)

\* C23 (as claimed): every heading level is in 0..4; it is 1 when only the
\* font-size signal fires; it is 0 exactly when none of the four signals
\* fires.
C23_LevelRange ==
    Formatted =>
        \A id \in ParagraphIds :
            LET p == InputParagraph(id)
                noneDeclared == DeclaredStyleLevel(p) = 0 /\ DeclaredOutlineLevel(p) = 0
                                   /\ HashPrefixLevel(p) = 0
            IN /\ LevelOf(id) \in 0..4
               /\ (noneDeclared /\ LargeFontLevel(p) = 1) => LevelOf(id) = 1
               /\ LevelOf(id) = 0 <=> (noneDeclared /\ LargeFontLevel(p) = 0)

\* the paragraphs of the cells of a row
RowParas(row) ==
    UNION {{row.cells[c].paras[k] : k \in DOMAIN row.cells[c].paras} :
              c \in DOMAIN row.cells}

\* C24 (as claimed): after a pass every paragraph of a body-row cell has the
\* spacing before and after of every paragraph of the header-row cells of
\* the same table.
C24_BodySpacingAsHeader ==
    Formatted =>
        \A id \in TableIds :
            \A r \in DOMAIN OutputRows(id) :
                r >= 2 =>
                    \A b \in RowParas(OutputRows(id)[r]), h \in RowParas(OutputRows(id)[1]) :
                        /\ b.BeforeSpacing = h.BeforeSpacing
                        /\ b.AfterSpacing = h.AfterSpacing

\* ------------------------------ further properties of save_report_to_file
\* C25: in one run _generate_word_document, _upload_to_data_lake and
\* upload_blob are each called at most once; the upload is called only after
\* Render has returned without an error; _log_report_to_database is called
\* only once the locator is fixed; and a run whose Render succeeded has
\* fixed the locator and called _log_report_to_database exactly once.
C25_StagesOrderedSingleShot ==
    /\ Count(calls, "_generate_word_document") <= 1
    /\ Count(calls, "_upload_to_data_lake") <= 1
    /\ Count(calls, "upload_blob") <= 1
    /\ Count(calls, "_log_report_to_database") <= 1
    /\ pc \in PublishPcs \cup RecordPcs => RenderSucceeded /\ ~returning
    /\ Called("_upload_to_data_lake") =>
          /\ RenderSucceeded
          /\ FirstCall("_generate_word_document") < FirstCall("_upload_to_data_lake")
    /\ Called("upload_blob") =>
          FirstCall("_upload_to_data_lake") < FirstCall("upload_blob")
    /\ Called("_log_report_to_database") =>
          /\ blob_url # None
          /\ pc \notin PublishPcs
          /\ Called("_upload_to_data_lake") =>
                FirstCall("_upload_to_data_lake") < FirstCall("_log_report_to_database")
    /\ (Done /\ RenderSucceeded) =>
          /\ blob_url # None
          /\ blob_service_client => Count(calls, "_upload_to_data_lake") = 1
          /\ Count(calls, "_log_report_to_database") = 1
C25_Witness ==
    /\ Done
    /\ RenderSucceeded
    /\ Called("upload_blob")
    /\ Called("INSERT")
    /\ IsRemoteUrl(blob_url)

\* the keys a run may upload its artifact under
BlobKeys == {<<YearMonth(t), "/", docx_filename>> : t \in timestamp..MaxClock}
\* one step of the container check of _upload_to_data_lake
ContainerStep ==
    pc = "upload_container" =>
        /\ "exists" \in Range(calls')
        /\ ("create_container" \in Range(calls'))
              <=> (~containerExists /\ container_error' # "exists failed")
        /\ containerExists => containerExists'
\* C26: create_container is called exactly when exists() reported the
\* container absent, and never when it is present; it comes before
\* upload_blob; every blob is stored under <year/month>/<filename>.
C26_ContainerCreatedIfAbsent ==
    /\ [][ContainerStep]_vars
    /\ [](/\ Called("create_container") =>
               FirstCall("exists") < FirstCall("create_container")
          /\ (Called("create_container") /\ Called("upload_blob")) =>
               FirstCall("create_container") < FirstCall("upload_blob")
          /\ Called("upload_blob") => Called("exists")
          /\ blobs \subseteq BlobKeys
          /\ Cardinality(blobs) <= 1)
C26_Witness ==
    /\ Done
    /\ Called("create_container")
    /\ Called("upload_blob")
    /\ blobs # {}
    /\ containerExists

\* C27: every row written by the run, by the stored procedure or by the
\* INSERT, committed or pending, carries the session id and conversation id
\* of the run and the filename and locator the run returns.
C27_LogRowMatchesResult ==
    \A row \in Range(fact_risk_report) \cup Range(txn) :
        /\ row.session_id = session_id
        /\ row.conversation_id = conversation_id
        /\ row.filename = docx_filename
        /\ row.blob_url = blob_url
        /\ Done =>
              /\ result.success
              /\ row.session_id = result.session_id
              /\ row.conversation_id = result.conversation_id
              /\ row.filename = result.filename
              /\ row.blob_url = result.blob_url
C27_Witness ==
    /\ Done
    /\ IsRemoteUrl(blob_url)
    /\ Len(fact_risk_report) = 1
    /\ fact_risk_report[1].via = "INSERT"
    /\ fact_risk_report[1].blob_url = result.blob_url

\* C28 (as claimed): a run commits at most one log row, and when both
\* attempts failed nothing is committed and nothing is left pending.
C28_AtMostOneRowCommitted ==
    /\ Len(fact_risk_report) <= 1
    /\ (pc \in {"return", "done"} /\ RecordBothFailed) =>
          (fact_risk_report = <<>> /\ txn = <<>>)

\* C29 (as claimed): when _log_report_to_database has returned, the
\* connection it opened is closed.
C29_ConnectionClosedOnReturn ==
    pc \in {"return", "done"} => conn # "open"

\* ================================================================ with_retry
\* largest max_retries passed
MaxRetries == 3
\* largest delay_seconds passed
MaxDelaySeconds == 2
\* largest backoff_multiplier passed
MaxBackoff == 2

\* variant: a sleep follows every failed attempt
ShouldSleepAlways(a, n) == a < n

\* line 90: if attempt < max_retries - 1
ShouldSleep(a, n) == a < n - 1

\* line 100: raise last_exception if last_exception else Exception("Unknown error")
RaisedAtEnd(e) == IF e # None THEN e ELSE <<"Exception", "Unknown error">>

\* lines 85-98, one iteration up to the sleep: await coro_func(); what it
\* returns is returned; an Exception is kept in last_exception; an exception
\* that is no Exception (a cancellation) leaves with_retry at once
Invoke ==
    /\ retry_pc = "call"
    /\ attempt < max_retries
    /\ events' = Append(events, <<"coro_func">>)
    /\ \E res \in {"returns", "raises", "cancelled"} :
          \/ /\ res = "returns"
             /\ retry_outcome' = [kind |-> "return", value |-> <<"result", attempt>>]
             /\ retry_pc' = "done"
             /\ UNCHANGED <<attempt, last_exception>>
          \/ /\ res = "raises"
             /\ last_exception' = <<"error", attempt>>
             /\ IF ShouldSleep(attempt, max_retries)
                   THEN retry_pc' = "sleep" /\ UNCHANGED attempt
                   ELSE retry_pc' = "call" /\ attempt' = attempt + 1
             /\ UNCHANGED retry_outcome
          \/ /\ res = "cancelled"
             /\ retry_outcome' = [kind |-> "raise", value |-> <<"CancelledError", attempt>>]
             /\ retry_pc' = "done"
             /\ UNCHANGED <<attempt, last_exception>>
    /\ UNCHANGED <<pipelineVars, fmtVars, namingVars, reportsVars, max_retries,
                   backoff_multiplier, delay>>

\* lines 95-96: await asyncio.sleep(delay); delay *= backoff_multiplier; the
\* task may be cancelled while it sleeps
Sleep ==
    /\ retry_pc = "sleep"
    /\ events' = Append(events, <<"sleep", delay>>)
    /\ \E res \in {"wakes", "cancelled"} :
          \/ /\ res = "wakes"
             /\ delay' = delay * backoff_multiplier
             /\ attempt' = attempt + 1
             /\ retry_pc' = "call"
             /\ UNCHANGED retry_outcome
          \/ /\ res = "cancelled"
             /\ retry_outcome' = [kind |-> "raise", value |-> <<"CancelledError", attempt>>]
             /\ retry_pc' = "done"
             /\ UNCHANGED <<delay, attempt>>
    /\ UNCHANGED <<pipelineVars, fmtVars, namingVars, reportsVars, max_retries,
                   backoff_multiplier, last_exception>>

\* line 100, reached when the loop is exhausted
RaiseLast ==
    /\ retry_pc = "call"
    /\ attempt >= max_retries
    /\ retry_outcome' = [kind |-> "raise", value |-> RaisedAtEnd(last_exception)]
    /\ retry_pc' = "done"
    /\ UNCHANGED <<pipelineVars, fmtVars, namingVars, reportsVars, max_retries,
                   backoff_multiplier, attempt, delay, last_exception, events>>

\* lines 62-83: the arguments, delay = delay_seconds, last_exception = None
RetryInit ==
    /\ PipelineIdle
    /\ FormatIdle
    /\ NamingIdle
    /\ ReportsIdle
    /\ retry_pc = "call"
    /\ max_retries \in 0..MaxRetries
    /\ backoff_multiplier \in 1..MaxBackoff
    /\ attempt = 0
    /\ delay \in 1..MaxDelaySeconds
    /\ last_exception = None
    /\ events = <<>>
    /\ retry_outcome = [kind |-> "None", value |-> None]

RetryNext == Invoke \/ Sleep \/ RaiseLast

SpecRetry == RetryInit /\ [][RetryNext]_vars

\* ------------------------------------------------- properties of with_retry
IsCall(e) == e[1] = "coro_func"
IsSleep(e) == e[1] = "sleep"
CallsBefore(i) == Cardinality({j \in 1..(i - 1) : IsCall(events[j])})
CallCount == CallsBefore(Len(events) + 1)
RetryDone == retry_pc = "done"

\* C30: coro_func is invoked at most max_retries times; a returned value is
\* the result of the last invocation made, every earlier one having failed;
\* when max_retries invocations all failed the exception raised is that of
\* the last one; every sleep directly follows a failed invocation that is
\* not the max_retries-th, so nothing sleeps after the final failure.
C30_RetryBounded ==
    /\ CallCount <= max_retries
    /\ \A i \in DOMAIN events :
          IsSleep(events[i]) =>
              /\ i > 1
              /\ IsCall(events[i - 1])
              /\ CallsBefore(i) < max_retries
    /\ (RetryDone /\ retry_outcome.kind = "return") =>
          /\ IsCall(events[Len(events)])
          /\ retry_outcome.value = <<"result", CallCount - 1>>
          /\ CallCount > 1 => last_exception = <<"error", CallCount - 2>>
    /\ (RetryDone /\ retry_outcome.kind = "raise" /\ retry_outcome.value[1] = "error") =>
          /\ CallCount = max_retries
          /\ IsCall(events[Len(events)])
          /\ retry_outcome.value = <<"error", max_retries - 1>>
    /\ (RetryDone /\ CallCount = max_retries /\ max_retries >= 1
           /\ retry_outcome.kind = "raise") =>
          /\ retry_outcome.value[2] = max_retries - 1
          /\ IsCall(events[Len(events)])
C30_Witness ==
    /\ RetryDone
    /\ max_retries = 3
    /\ retry_outcome = [kind |-> "raise", value |-> <<"error", 2>>]
    /\ Len(events) = 5
    /\ IsSleep(events[4])
====
